---- MODULE Spec2Model ----
(***************************************************************************)
(* Model of the annotty-hil server: the data partition manager             *)
(* (data_manager.py), the training orchestrator (main.py), the             *)
(* cross-validation engine (trainer.py), the versioned artifact store      *)
(* (version_manager.py) and the inference cache (inference.py).            *)
(*                                                                         *)
(* HTTP requests run in worker slots; a handler that the source executes   *)
(* in several steps (lock section, then unlocked statements) is modelled   *)
(* one step per action, so that requests and the background training task  *)
(* interleave as threads do.                                               *)
(***************************************************************************)
EXTENDS Integers, Sequences, FiniteSets, TLC

\* ---------------------------------------------------------------- bounds
\* Image ids 1..MaxId (ids order as their file names do).
MaxId == 4
\* Annotation payloads uploaded by clients are 1..MaxData (0 is curated content).
MaxData == 1
\* The max_epochs query parameter ranges over 0..MaxEpochs.
MaxEpochs == 1
\* A validated epoch scores k * DiceUnit, k in 1..MaxScore (dice_score, smoothed,
\* is above zero on every sample).
MaxScore == 2
\* At most MaxRuns start requests are accepted; MaxRunsLong where only the
\* sequence of runs matters and every epoch scores the same.
MaxRuns == 2
MaxRunsLong == 3
\* Concurrent request-handling workers.
NumWorkers == 2
\* Folds of the cross-validation (config.py sets 5; the model keeps
\* N_FOLDS > MIN_IMAGES_FOR_TRAINING as the configuration does).
N_FOLDS == 3
\* _make_folds is also examined for every fold count 1..MaxFolds.
MaxFolds == 4

\* ------------------------------------------------------ program constants
MIN_IMAGES_FOR_TRAINING == 2

Ids == 1..MaxId
Slots == 1..NumWorkers
Runs == 1..MaxRunsLong
FoldIdx == 0..(N_FOLDS - 1)

VARIABLES
    completed_images,         \* images_completed/images: id -> content
    completed_annotations,    \* images_completed/annotations: id -> content
    unannotated_images,       \* images_unannotated/images: id -> content
    unannotated_annotations,  \* images_unannotated/annotations: id -> content
    training_status,          \* main.training_status
    training_cancel_event,    \* main.training_cancel_event
    requests,                 \* worker slot -> the request it handles
    tasks,                    \* run -> the background task of that run
    runs,                     \* number of accepted start requests (the clock)
    current_folds,            \* current_pt/fold_i.pt: fold index -> checkpoint
    current_best,             \* current_pt/best.pt: <<>> or <<checkpoint>>
    versions,                 \* versions/: directory name -> version directory
    models,                   \* inference._models
    models_loaded,            \* inference._models_loaded
    allocated,                \* history: each get_next_version result, with the
                              \*   directory names that existed at the call
    cancel_accepted           \* history: the runs that were running when a cancel was
                              \*   answered, and whether the first answer came before
                              \*   the run's task began

dataVars == <<completed_images, completed_annotations,
              unannotated_images, unannotated_annotations>>
storeVars == <<current_folds, current_best, versions>>
cacheVars == <<models, models_loaded>>
vars == <<completed_images, completed_annotations, unannotated_images,
          unannotated_annotations, training_status, training_cancel_event,
          requests, tasks, runs, current_folds, current_best, versions,
          models, models_loaded, allocated, cancel_accepted>>

\* ------------------------------------------------------------- utilities
Max(S) == CHOOSE x \in S : \A y \in S : y <= x
Min(S) == CHOOSE x \in S : \A y \in S : x <= y

RECURSIVE SumSeq(_)
SumSeq(s) == IF s = <<>> THEN 0 ELSE Head(s) + SumSeq(Tail(s))

RECURSIVE Gcd(_, _)
Gcd(a, b) == IF b = 0 THEN a ELSE Gcd(b, a % b)

RECURSIVE LcmUpTo(_)
LcmUpTo(n) == IF n <= 1 THEN 1 ELSE (LcmUpTo(n - 1) * n) \div Gcd(LcmUpTo(n - 1), n)

\* Dice scores are exact multiples of 1/DiceUnit, so that the mean of up to
\* N_FOLDS epoch scores is again a value of the model.
DiceUnit == LcmUpTo(N_FOLDS)
Scores == {k * DiceUnit : k \in 1..MaxScore}

\* A set of naturals as the ascending sequence (sorted()).
RECURSIVE SortedSeq(_)
SortedSeq(S) == IF S = {} THEN <<>> ELSE <<Min(S)>> \o SortedSeq(S \ {Min(S)})

\* Python's seq[i], which counts a negative i from the end.
PyIndex(s, i) == IF i < 0 THEN s[Len(s) + i + 1] ELSE s[i + 1]

\* ------------------------------------------------------ data_manager.py
ListPng(directory) == DOMAIN directory

\* DataManager.list_unannotated_images
ListUnannotatedImages ==
    LET images == SortedSeq(ListPng(unannotated_images))
        label_set == ListPng(unannotated_annotations)
    IN  [i \in 1..Len(images) |-> [id |-> images[i], has_label |-> images[i] \in label_set]]

\* get_next_unlabeled choosing among all the inbox images.
GetNextUnlabeledAnyImage(strategy) ==
    IF ListPng(unannotated_images) = {} THEN {0}
    ELSE IF strategy = "sequential" THEN {Min(ListPng(unannotated_images))}
    ELSE ListPng(unannotated_images)

\* DataManager.get_next_unlabeled: the ids it may return (0 is None).
GetNextUnlabeled(strategy) ==
    LET unlabeled == ListPng(unannotated_images) \ ListPng(unannotated_annotations)
    IN  IF unlabeled = {} THEN {0}
        ELSE IF strategy = "sequential" THEN {Min(unlabeled)}
        ELSE unlabeled

\* DataManager.get_image_path / get_annotation_path: partition found in ("" is None).
GetImagePath(image_id) ==
    IF image_id \in DOMAIN unannotated_images THEN "unannotated"
    ELSE IF image_id \in DOMAIN completed_images THEN "completed"
    ELSE ""

GetAnnotationPath(image_id) ==
    IF image_id \in DOMAIN unannotated_annotations THEN "unannotated"
    ELSE IF image_id \in DOMAIN completed_annotations THEN "completed"
    ELSE ""

\* DataManager.get_all_training_pairs: completed pairs, then annotated inbox pairs.
GetAllTrainingPairs ==
    LET completed == SortedSeq(ListPng(completed_images) \cap ListPng(completed_annotations))
        inbox == SortedSeq(ListPng(unannotated_images) \cap ListPng(unannotated_annotations))
    IN  [i \in 1..Len(completed) |-> <<"completed", completed[i]>>]
        \o [i \in 1..Len(inbox) |-> <<"unannotated", inbox[i]>>]

\* DataManager.get_stats
GetStats ==
    LET unannotated_labeled == ListPng(unannotated_annotations) \cap ListPng(unannotated_images)
    IN  [completed_images |-> Cardinality(ListPng(completed_images)),
         completed_annotations |-> Cardinality(ListPng(completed_annotations)),
         unannotated_images |-> Cardinality(ListPng(unannotated_images)),
         unannotated_labeled |-> Cardinality(unannotated_labeled),
         unannotated_unlabeled |-> Cardinality(ListPng(unannotated_images))
                                   - Cardinality(unannotated_labeled),
         total_training_pairs |-> Cardinality(ListPng(completed_annotations))
                                  + Cardinality(unannotated_labeled)]

\* save_annotation looking the image up in either partition, as get_image_path does.
SaveAnnotationRaisesAnywhere(image_id) ==
    image_id \notin DOMAIN unannotated_images \cup DOMAIN completed_images

\* DataManager.save_annotation raises ValueError unless the inbox holds the image.
SaveAnnotationRaises(image_id) == image_id \notin DOMAIN unannotated_images

\* save_annotation writing beside the image wherever the image is found.
SaveAnnotationWriteBeside(image_id, data) ==
    /\ unannotated_annotations' = (image_id :> data) @@ unannotated_annotations
    /\ completed_annotations' =
           IF image_id \in DOMAIN completed_images
           THEN (image_id :> data) @@ completed_annotations
           ELSE completed_annotations

\* DataManager.save_annotation, the write: open(save_path, "wb").write(data).
SaveAnnotationWrite(image_id, data) ==
    /\ unannotated_annotations' = (image_id :> data) @@ unannotated_annotations
    /\ UNCHANGED completed_annotations

\* ---------------------------------------------------- version_manager.py
\* A version directory name v{NNN} is the sequence of its decimal digits.
RECURSIVE Digits(_)
Digits(n) == IF n < 10 THEN <<n>> ELSE Digits(n \div 10) \o <<n % 10>>

RECURSIVE ZeroPad(_, _)
ZeroPad(d, width) == IF Len(d) >= width THEN d ELSE ZeroPad(<<0>> \o d, width)

\* f"v{next_num:03d}"
FormatVersion(n) == ZeroPad(Digits(n), 3)

\* re.match(r"^v(\d{3,})$", name)
MatchesVersion(name) == Len(name) >= 3

RECURSIVE IntOf(_)
IntOf(d) == IF d = <<>> THEN 0 ELSE IntOf(SubSeq(d, 1, Len(d) - 1)) * 10 + d[Len(d)]

\* get_next_version numbering by the count of the existing directories.
GetNextVersionByCount ==
    FormatVersion(Cardinality({n \in DOMAIN versions : MatchesVersion(n)}) + 1)

\* get_next_version returning the largest existing number (v001 when none).
GetNextVersionNoIncrement ==
    LET existing == {IntOf(name) : name \in {n \in DOMAIN versions : MatchesVersion(n)}}
    IN  FormatVersion(Max(existing \cup {1}))

\* get_next_version
GetNextVersion ==
    LET existing == {IntOf(name) : name \in {n \in DOMAIN versions : MatchesVersion(n)}}
        next_num == Max(existing \cup {0}) + 1
    IN  FormatVersion(next_num)

\* create_version_log (train_loss, a float of the training primitive, is not kept)
CreateVersionLog(version, training_pairs, max_epochs, now) ==
    [version |-> version,
     started_at |-> now,
     completed_at |-> 0,
     status |-> "running",
     max_epochs_per_fold |-> max_epochs,
     n_folds |-> N_FOLDS,
     completed_pairs |-> Len(training_pairs),
     results |-> <<>>,
     folds |-> [i \in 1..N_FOLDS |->
                  [fold_idx |-> i - 1, train_count |-> 0, val_count |-> 0,
                   best_dice |-> 0, best_epoch |-> 0, epochs |-> <<>>]]]

\* set_fold_split_info
SetFoldSplitInfo(log, fold_idx, train_count, val_count) ==
    [log EXCEPT !.folds[fold_idx + 1].train_count = train_count,
                !.folds[fold_idx + 1].val_count = val_count]

\* record_epoch keeping the best score and epoch without the history.
RecordEpochBestOnly(log, fold_idx, epoch, val_dice) ==
    LET fold == log.folds[fold_idx + 1]
    IN  [log EXCEPT !.folds[fold_idx + 1] =
            IF val_dice > fold.best_dice
            THEN [fold EXCEPT !.best_dice = val_dice, !.best_epoch = epoch]
            ELSE fold]

\* record_epoch
RecordEpoch(log, fold_idx, epoch, val_dice) ==
    LET fold == log.folds[fold_idx + 1]
        appended == [fold EXCEPT !.epochs = Append(@, [epoch |-> epoch, val_dice |-> val_dice])]
    IN  [log EXCEPT !.folds[fold_idx + 1] =
            IF val_dice > fold.best_dice
            THEN [appended EXCEPT !.best_dice = val_dice, !.best_epoch = epoch]
            ELSE appended]

\* finalize_version writing a results block without the fold scores.
FinalizeResultsNoFolds(fold_dices, best_fold_idx) ==
    [mean_dice |-> 0, fold_dices |-> <<>>, best_fold_idx |-> best_fold_idx,
     best_fold_dice |-> 0]

\* finalize_version, the results block
FinalizeResults(fold_dices, best_fold_idx) ==
    [mean_dice |-> IF fold_dices # <<>> THEN SumSeq(fold_dices) \div Len(fold_dices) ELSE 0,
     fold_dices |-> fold_dices,
     best_fold_idx |-> best_fold_idx,
     best_fold_dice |-> IF fold_dices # <<>> THEN PyIndex(fold_dices, best_fold_idx) ELSE 0]

\* finalize_version, the record it writes as training_log.json
FinalizeLog(log, fold_dices, best_fold_idx, status, now) ==
    [log EXCEPT !.results = <<FinalizeResults(fold_dices, best_fold_idx)>>,
                !.status = status,
                !.completed_at = now]

\* finalize_version preserving completed runs only.
FinalizeVersionCompletedOnly(version, log, fold_dices, best_fold_idx, status, now) ==
    IF status # "completed" THEN versions
    ELSE (version :>
            [folds |-> current_folds,
             best |-> current_best,
             log |-> <<FinalizeLog(log, fold_dices, best_fold_idx, status, now)>>])
         @@ versions

\* finalize_version: the versions directory after the call
FinalizeVersion(version, log, fold_dices, best_fold_idx, status, now) ==
    LET old == IF version \in DOMAIN versions
               THEN versions[version]
               ELSE [folds |-> <<>>, best |-> <<>>, log |-> <<>>]
        dir == [folds |-> current_folds @@ old.folds,
                best |-> IF current_best # <<>> THEN current_best ELSE old.best,
                log |-> <<FinalizeLog(log, fold_dices, best_fold_idx, status, now)>>]
    IN  (version :> dir) @@ versions

\* A training_log.json that does not hold a record: "truncated" when json.load
\* raises JSONDecodeError, "undecodable" when reading it raises another
\* exception (UnicodeDecodeError for bytes that are not UTF-8, AttributeError
\* for JSON that is not an object).
CorruptLog(kind) == <<[corrupt |-> kind]>>

Corrupt(log) == log # <<>> /\ "corrupt" \in DOMAIN log[1]

Undecodable(log) == Corrupt(log) /\ log[1].corrupt = "undecodable"

\* list_all_versions lines 188-208: an exception that is neither
\* JSONDecodeError nor OSError leaves the function.
ListAllVersionsRaises ==
    \E n \in DOMAIN versions : MatchesVersion(n) /\ Undecodable(versions[n].log)

\* list_all_versions, one summary: "unknown" when training_log.json is missing,
\* "error" when it cannot be read.
VersionSummary(name) ==
    LET dir == versions[name]
    IN  IF dir.log = <<>>
        THEN [version |-> name, status |-> "unknown", started_at |-> 0,
              completed_at |-> 0, results |-> <<>>]
        ELSE IF Corrupt(dir.log)
        THEN [version |-> name, status |-> "error", started_at |-> 0,
              completed_at |-> 0, results |-> <<>>]
        ELSE [version |-> name, status |-> dir.log[1].status,
              started_at |-> dir.log[1].started_at,
              completed_at |-> dir.log[1].completed_at,
              results |-> dir.log[1].results]

\* Directory names in sorted() order: names are compared digit by digit.
RECURSIVE LexLess(_, _)
LexLess(a, b) ==
    IF a = <<>> THEN b # <<>>
    ELSE IF b = <<>> THEN FALSE
    ELSE IF Head(a) # Head(b) THEN Head(a) < Head(b)
    ELSE LexLess(Tail(a), Tail(b))

RECURSIVE SortedNames(_)
SortedNames(S) ==
    IF S = {} THEN <<>>
    ELSE LET first == CHOOSE a \in S : \A b \in S \ {a} : LexLess(a, b)
         IN  <<first>> \o SortedNames(S \ {first})

\* list_all_versions
ListAllVersions ==
    LET names == SortedNames({n \in DOMAIN versions : MatchesVersion(n)})
    IN  [i \in 1..Len(names) |-> VersionSummary(names[i])]

\* ------------------------------------------------------------ trainer.py
\* _make_folds dealing the pairs in consecutive blocks of ceil(N / n_folds).
MakeFoldsBlocks(all_pairs, n_folds) ==
    LET block == (Len(all_pairs) + n_folds - 1) \div n_folds
    IN  [f \in 1..n_folds |->
            LET first == (f - 1) * block + 1
                last == IF f * block < Len(all_pairs) THEN f * block ELSE Len(all_pairs)
            IN  IF first > last THEN <<>> ELSE SubSeq(all_pairs, first, last)]

\* _make_folds: pair i (counted from 0) goes to fold i mod n_folds.
MakeFolds(all_pairs, n_folds) ==
    [f \in 1..n_folds |->
        LET size == Cardinality({i \in 1..Len(all_pairs) : (i - 1) % n_folds = f - 1})
        IN  [k \in 1..size |-> all_pairs[(k - 1) * n_folds + f]]]

\* train_model, lines 320-324: the training pairs of fold fold_idx
RECURSIVE ExtendOthers(_, _, _)
ExtendOthers(folds, fold_idx, j) ==
    IF j > Len(folds) THEN <<>>
    ELSE (IF j - 1 # fold_idx THEN folds[j] ELSE <<>>) \o ExtendOthers(folds, fold_idx, j + 1)

TrainPairsFold(folds, fold_idx) == ExtendOthers(folds, fold_idx, 1)

\* random.shuffle: any order of the pairs
Shuffles(all_pairs) ==
    {[i \in 1..Len(all_pairs) |-> all_pairs[p[i]]] : p \in Permutations(1..Len(all_pairs))}

\* ----------------------------------------------------------- inference.py
\* reload_model
ReloadModel ==
    /\ models' = {}
    /\ models_loaded' = FALSE

\* load_ensemble lines 55-69: the checkpoints it loads, the fold files when one
\* exists, else best.pt.
EnsembleFiles ==
    IF DOMAIN current_folds # {}
    THEN {current_folds[i] : i \in DOMAIN current_folds}
    ELSE IF current_best # <<>> THEN {current_best[1]}
    ELSE {}

\* load_ensemble
LoadEnsemble ==
    /\ models' = EnsembleFiles
    /\ models_loaded' = TRUE

\* --------------------------------------------------------------- main.py
\* A worker slot: the request it handles, the statement it stands at, and,
\* once answered (pc = "done"), the HTTP status code of the response.
IdleRequest ==
    [op |-> "idle", pc |-> "done", code |-> 0, training_pairs |-> <<>>,
     max_epochs |-> 0, run |-> 0, version |-> <<>>, image_id |-> 0, seen |-> <<>>,
     strategy |-> "", existing |-> {}]

Answered(op, code) == [IdleRequest EXCEPT !.op = op, !.code = code]

Free(s) == requests[s].pc = "done"

\* The clock: datetime.now() is the number of runs accepted so far.
Now == runs

\* A background task: the locals of run_training_task, train_model and
\* _train_single_fold. pc "none": not scheduled; "done": returned.
NoTask ==
    [pc |-> "none", training_pairs |-> <<>>, max_epochs |-> 0, version |-> <<>>,
     version_log |-> <<>>, folds |-> <<>>, val_pairs |-> <<>>,
     train_pairs_fold |-> <<>>, fold_idx |-> 0, epoch |-> 0,
     best_dice |-> 0, mean_dice |-> 0, fold_dices |-> <<>>, best_fold_idx |-> -1,
     best_fold_dice |-> 0, error |-> "", finalize_calls |-> 0, outcome |-> ""]

Active(t) == tasks[t].pc \notin {"none", "done"}

\* training_lock is free unless a task stands inside its terminal update.
LockFree == \A t \in Runs : tasks[t].pc # "locked"

\* start_training without the count of lines 175-182.
TrainRequestUncounted(s, max_epochs) ==
    /\ Free(s)
    /\ requests' = [requests EXCEPT ![s] =
           [IdleRequest EXCEPT !.op = "train", !.pc = "lock",
                               !.training_pairs = GetAllTrainingPairs,
                               !.max_epochs = max_epochs]]
    /\ UNCHANGED <<dataVars, training_status, training_cancel_event, tasks, runs,
                   storeVars, cacheVars, allocated, cancel_accepted>>

\* start_training, lines 174-182: the pairs are read and counted.
TrainRequest(s, max_epochs) ==
    /\ Free(s)
    /\ LET training_pairs == GetAllTrainingPairs
       IN  requests' = [requests EXCEPT ![s] =
               IF Len(training_pairs) < MIN_IMAGES_FOR_TRAINING
               THEN Answered("train", 400)
               ELSE [IdleRequest EXCEPT !.op = "train", !.pc = "lock",
                                        !.training_pairs = training_pairs,
                                        !.max_epochs = max_epochs]]
    /\ UNCHANGED <<dataVars, training_status, training_cancel_event, tasks, runs,
                   storeVars, cacheVars, allocated, cancel_accepted>>

\* start_training without the check of line 185.
NeverRunning == FALSE

\* start_training, line 185: the check made under training_lock.
AlreadyRunning == training_status.status = "running"

\* start_training recording the start time only.
StartedStatusOnlyTime(max_epochs, now) ==
    [training_status EXCEPT !.started_at = now, !.completed_at = 0]

\* start_training, lines 190-198: the status of a run that starts ("version" stays).
StartedStatus(max_epochs, now) ==
    [training_status EXCEPT
        !.status = "running", !.epoch = 0, !.max_epochs = N_FOLDS * max_epochs,
        !.best_dice = 0, !.current_fold = 0, !.n_folds = N_FOLDS,
        !.started_at = now, !.completed_at = 0, !.error = ""]

\* start_training, lines 184-198: the section under training_lock.
TrainLock(s, limit) ==
    /\ requests[s].op = "train" /\ requests[s].pc = "lock"
    /\ LockFree
    /\ IF AlreadyRunning
       THEN /\ requests' = [requests EXCEPT ![s] = Answered("train", 409)]
            /\ UNCHANGED <<training_status, runs>>
       ELSE /\ runs < limit
            /\ runs' = runs + 1
            /\ training_status' = StartedStatus(requests[s].max_epochs, runs + 1)
            /\ requests' = [requests EXCEPT ![s].pc = "clear", ![s].run = runs + 1]
    /\ UNCHANGED <<dataVars, training_cancel_event, tasks, storeVars, cacheVars,
                   allocated, cancel_accepted>>

\* start_training, line 200: training_cancel_event.clear(), the lock released.
TrainClear(s) ==
    /\ requests[s].op = "train" /\ requests[s].pc = "clear"
    /\ training_cancel_event' = FALSE
    /\ requests' = [requests EXCEPT ![s].pc = "add_task"]
    /\ UNCHANGED <<dataVars, training_status, tasks, runs, storeVars, cacheVars,
                   allocated, cancel_accepted>>

\* start_training, lines 202-203: the task is handed to BackgroundTasks.
TrainAddTask(s) ==
    /\ requests[s].op = "train" /\ requests[s].pc = "add_task"
    /\ tasks' = [tasks EXCEPT ![requests[s].run] =
                    [NoTask EXCEPT !.pc = "queued",
                                   !.training_pairs = requests[s].training_pairs,
                                   !.max_epochs = requests[s].max_epochs]]
    /\ requests' = [requests EXCEPT ![s] = Answered("train", 200)]
    /\ UNCHANGED <<dataVars, training_status, training_cancel_event, runs, storeVars,
                   cacheVars, allocated, cancel_accepted>>

\* cancel_training without the check of line 250.
CancelRequestUnchecked(s) ==
    /\ Free(s)
    /\ LockFree
    /\ requests' = [requests EXCEPT ![s] =
           [IdleRequest EXCEPT !.op = "cancel", !.pc = "set",
                               !.run = training_status.started_at]]
    /\ UNCHANGED <<dataVars, training_status, training_cancel_event, tasks, runs,
                   storeVars, cacheVars, allocated, cancel_accepted>>

\* cancel_training, lines 249-254: the check made under training_lock.
CancelRequest(s) ==
    /\ Free(s)
    /\ LockFree
    /\ requests' = [requests EXCEPT ![s] =
           IF training_status.status # "running"
           THEN Answered("cancel", 409)
           ELSE [IdleRequest EXCEPT !.op = "cancel", !.pc = "set",
                                    !.run = training_status.started_at]]
    /\ UNCHANGED <<dataVars, training_status, training_cancel_event, tasks, runs,
                   storeVars, cacheVars, allocated, cancel_accepted>>

\* cancel_training, lines 255-257: training_cancel_event.set(), the lock released.
CancelSet(s) ==
    /\ requests[s].op = "cancel" /\ requests[s].pc = "set"
    /\ training_cancel_event' = TRUE
    /\ requests' = [requests EXCEPT ![s] = Answered("cancel", 200)]
    /\ cancel_accepted' =
           IF /\ training_status.status = "running"
              /\ training_status.started_at = requests[s].run
              /\ \A c \in cancel_accepted : c.run # requests[s].run
           THEN cancel_accepted \cup
                    {[run |-> requests[s].run,
                      early |-> tasks[requests[s].run].pc \in {"none", "queued"}]}
           ELSE cancel_accepted
    /\ UNCHANGED <<dataVars, training_status, tasks, runs, storeVars, cacheVars,
                   allocated>>

\* submit_label: validate_image_id holds of every id of the model.
SubmitLabel(s, image_id, data) ==
    /\ Free(s)
    /\ IF SaveAnnotationRaises(image_id)
       THEN /\ requests' = [requests EXCEPT ![s] =
                   [Answered("submit", 400) EXCEPT !.image_id = image_id]]
            /\ UNCHANGED <<unannotated_annotations, completed_annotations>>
       ELSE /\ SaveAnnotationWrite(image_id, data)
            /\ requests' = [requests EXCEPT ![s] =
                   [Answered("submit", 200) EXCEPT !.image_id = image_id]]
    /\ UNCHANGED <<completed_images, unannotated_images, training_status,
                   training_cancel_event, tasks, runs, storeVars, cacheVars,
                   allocated, cancel_accepted>>

\* get_info: the counts of get_stats in the reply.
GetInfo(s) ==
    /\ Free(s)
    /\ LET stats == GetStats
       IN  requests' = [requests EXCEPT ![s] =
               [Answered("info", 200) EXCEPT !.seen =
                   <<[total_images |-> stats.unannotated_images,
                      labeled_images |-> stats.unannotated_labeled,
                      unlabeled_images |-> stats.unannotated_unlabeled,
                      training_status |-> training_status.status,
                      completed_images |-> stats.completed_images,
                      completed_annotations |-> stats.completed_annotations,
                      total_training_pairs |-> stats.total_training_pairs]>>]]
    /\ UNCHANGED <<dataVars, training_status, training_cancel_event, tasks, runs,
                   storeVars, cacheVars, allocated, cancel_accepted>>

\* get_next_sample: the id picked by get_next_unlabeled, None when all are labeled.
GetNextSample(s, strategy) ==
    /\ Free(s)
    /\ \E image_id \in GetNextUnlabeled(strategy) :
           requests' = [requests EXCEPT ![s] =
               [Answered("next", 200) EXCEPT !.image_id = image_id,
                                             !.strategy = strategy]]
    /\ UNCHANGED <<dataVars, training_status, training_cancel_event, tasks, runs,
                   storeVars, cacheVars, allocated, cancel_accepted>>

\* infer and run_inference lines 83-89: 404 without the image, 503 without
\* best.pt or without a model, else the ensemble is loaded unless it is loaded.
Infer(s, image_id) ==
    /\ Free(s)
    /\ IF GetImagePath(image_id) = ""
       THEN /\ requests' = [requests EXCEPT ![s] = Answered("infer", 404)]
            /\ UNCHANGED cacheVars
       ELSE IF current_best = <<>>
       THEN /\ requests' = [requests EXCEPT ![s] = Answered("infer", 503)]
            /\ UNCHANGED cacheVars
       ELSE IF ~models_loaded
       THEN /\ LoadEnsemble
            /\ requests' = [requests EXCEPT ![s] =
                   Answered("infer", IF EnsembleFiles = {} THEN 503 ELSE 200)]
       ELSE /\ UNCHANGED cacheVars
            /\ requests' = [requests EXCEPT ![s] =
                   Answered("infer", IF models = {} THEN 503 ELSE 200)]
    /\ UNCHANGED <<dataVars, training_status, training_cancel_event, tasks, runs,
                   storeVars, allocated, cancel_accepted>>

\* load_ensemble lines 55-58 and 63: the checkpoint files found to exist.
ExistingPaths ==
    IF DOMAIN current_folds # {}
    THEN {[file |-> "fold", idx |-> i] : i \in DOMAIN current_folds}
    ELSE IF current_best # <<>> THEN {[file |-> "best", idx |-> 0]}
    ELSE {}

\* _load_single_model: the checkpoint a path holds when it is read.
LoadSingleModel(path) ==
    IF path.file = "fold" THEN current_folds[path.idx] ELSE current_best[1]

\* infer seen statement by statement, lines 124-135, and run_inference up to
\* load_ensemble line 59: the checks, the paths found, _models = [].
InferBegin(s, image_id) ==
    /\ Free(s)
    /\ IF GetImagePath(image_id) = ""
       THEN /\ requests' = [requests EXCEPT ![s] = Answered("infer", 404)]
            /\ UNCHANGED cacheVars
       ELSE IF current_best = <<>>
       THEN /\ requests' = [requests EXCEPT ![s] = Answered("infer", 503)]
            /\ UNCHANGED cacheVars
       ELSE IF ~models_loaded
       THEN /\ requests' = [requests EXCEPT ![s] =
                   [IdleRequest EXCEPT !.op = "infer", !.pc = "load",
                                       !.existing = ExistingPaths]]
            /\ models' = IF DOMAIN current_folds # {} THEN {} ELSE models
            /\ UNCHANGED models_loaded
       ELSE /\ UNCHANGED cacheVars
            /\ requests' = [requests EXCEPT ![s] =
                   [Answered("infer", IF models = {} THEN 503 ELSE 200)
                       EXCEPT !.seen = <<models>>]]
    /\ UNCHANGED <<dataVars, training_status, training_cancel_event, tasks, runs,
                   storeVars, allocated, cancel_accepted>>

\* load_ensemble lines 60-61: the fold files are read and the models appended
\* to the list _models names now; lines 65 and 68: _models is assigned.
InferLoadModels(s) ==
    /\ requests[s].op = "infer" /\ requests[s].pc = "load"
    /\ models' =
           IF \E p \in requests[s].existing : p.file = "fold"
           THEN models \cup {LoadSingleModel(p) : p \in requests[s].existing}
           ELSE {LoadSingleModel(p) : p \in requests[s].existing}
    /\ requests' = [requests EXCEPT ![s].pc = "loaded"]
    /\ UNCHANGED <<dataVars, training_status, training_cancel_event, tasks, runs,
                   storeVars, models_loaded, allocated, cancel_accepted>>

\* load_ensemble line 71, _models_loaded = True, and run_inference lines 85-126
\* answering from _models.
InferLoadEnd(s) ==
    /\ requests[s].op = "infer" /\ requests[s].pc = "loaded"
    /\ models_loaded' = TRUE
    /\ requests' = [requests EXCEPT ![s] =
           [Answered("infer", IF models = {} THEN 503 ELSE 200)
               EXCEPT !.seen = <<models>>]]
    /\ UNCHANGED <<dataVars, training_status, training_cancel_event, tasks, runs,
                   storeVars, models, allocated, cancel_accepted>>

\* restore_model_version, lines 339-344: the check made under training_lock.
RestoreRequest(s, version) ==
    /\ Free(s)
    /\ LockFree
    /\ requests' = [requests EXCEPT ![s] =
           IF training_status.status = "running"
           THEN Answered("restore", 409)
           ELSE [IdleRequest EXCEPT !.op = "restore", !.pc = "copy_folds",
                                    !.version = version]]
    /\ UNCHANGED <<dataVars, training_status, training_cancel_event, tasks, runs,
                   storeVars, cacheVars, allocated, cancel_accepted>>

\* restore_version without the check of lines 152-153.
RestoreCopyFoldsUnchecked(s) ==
    /\ requests[s].op = "restore" /\ requests[s].pc = "copy_folds"
    /\ current_folds' =
           IF requests[s].version \in DOMAIN versions
           THEN versions[requests[s].version].folds @@ current_folds
           ELSE current_folds
    /\ requests' = [requests EXCEPT ![s].pc = "copy_best"]
    /\ UNCHANGED <<dataVars, training_status, training_cancel_event, tasks, runs,
                   current_best, versions, cacheVars, allocated, cancel_accepted>>

\* restore_version, lines 151-159: the directory check and the fold copies.
RestoreCopyFolds(s) ==
    /\ requests[s].op = "restore" /\ requests[s].pc = "copy_folds"
    /\ IF requests[s].version \notin DOMAIN versions
       THEN /\ requests' = [requests EXCEPT ![s] = Answered("restore", 404)]
            /\ UNCHANGED current_folds
       ELSE /\ current_folds' = versions[requests[s].version].folds @@ current_folds
            /\ requests' = [requests EXCEPT ![s].pc = "copy_best"]
    /\ UNCHANGED <<dataVars, training_status, training_cancel_event, tasks, runs,
                   current_best, versions, cacheVars, allocated, cancel_accepted>>

\* restore_version without the copy of lines 161-164.
RestoreCopyBestSkipped(s) ==
    /\ requests[s].op = "restore" /\ requests[s].pc = "copy_best"
    /\ requests' = [requests EXCEPT ![s].pc = "reload"]
    /\ UNCHANGED <<dataVars, training_status, training_cancel_event, tasks, runs,
                   storeVars, cacheVars, allocated, cancel_accepted>>

\* restore_version, lines 161-164: best.pt is copied when the version holds one.
RestoreCopyBest(s) ==
    /\ requests[s].op = "restore" /\ requests[s].pc = "copy_best"
    /\ current_best' =
           IF requests[s].version \in DOMAIN versions
              /\ versions[requests[s].version].best # <<>>
           THEN versions[requests[s].version].best
           ELSE current_best
    /\ requests' = [requests EXCEPT ![s].pc = "reload"]
    /\ UNCHANGED <<dataVars, training_status, training_cancel_event, tasks, runs,
                   current_folds, versions, cacheVars, allocated, cancel_accepted>>

\* restore_version, lines 166-170, and the response.
RestoreReload(s) ==
    /\ requests[s].op = "restore" /\ requests[s].pc = "reload"
    /\ ReloadModel
    /\ requests' = [requests EXCEPT ![s] = Answered("restore", 200)]
    /\ UNCHANGED <<dataVars, training_status, training_cancel_event, tasks, runs,
                   storeVars, allocated, cancel_accepted>>

\* ------------------------------------------- the background training task
\* run_training_task up to train_model line 308: the pair count is checked,
\* the version is allocated, the log created, the pairs shuffled and split.
TaskBegin(t) ==
    /\ tasks[t].pc = "queued"
    /\ IF Len(tasks[t].training_pairs) < MIN_IMAGES_FOR_TRAINING
       THEN /\ tasks' = [tasks EXCEPT ![t].pc = "set_error", ![t].error = "ValueError"]
            /\ UNCHANGED allocated
       ELSE \E all_pairs \in Shuffles(tasks[t].training_pairs) :
               LET version == GetNextVersion
                   folds == MakeFolds(all_pairs, N_FOLDS)
               IN  /\ tasks' = [tasks EXCEPT
                          ![t].pc = "fold",
                          ![t].version = version,
                          ![t].version_log =
                              <<CreateVersionLog(version, tasks[t].training_pairs,
                                                 tasks[t].max_epochs, Now)>>,
                          ![t].folds = folds,
                          ![t].fold_idx = 0,
                          ![t].fold_dices = <<>>,
                          ![t].best_fold_idx = -1,
                          ![t].best_fold_dice = 0]
                   /\ allocated' = Append(allocated, [version |-> version,
                                                       existing |-> DOMAIN versions])
    /\ UNCHANGED <<dataVars, training_status, training_cancel_event, requests, runs,
                   storeVars, cacheVars, cancel_accepted>>

\* train_model lines 318-326: the split counts of the fold go to the log.
FoldSplit(task) ==
    LET val_pairs == task.folds[task.fold_idx + 1]
        train_pairs_fold == TrainPairsFold(task.folds, task.fold_idx)
    IN  [task EXCEPT
            !.val_pairs = val_pairs,
            !.train_pairs_fold = train_pairs_fold,
            !.version_log = <<SetFoldSplitInfo(task.version_log[1], task.fold_idx,
                                               Len(train_pairs_fold), Len(val_pairs))>>]

\* _train_single_fold lines 179-203: the fold's model is created and loaded.
TaskFoldSetup(t) ==
    /\ tasks[t].pc = "fold"
    /\ tasks' = [tasks EXCEPT ![t] = [FoldSplit(tasks[t]) EXCEPT
                                         !.pc = "epoch", !.epoch = 1, !.best_dice = 0]]
    /\ UNCHANGED <<dataVars, training_status, training_cancel_event, requests, runs,
                   storeVars, cacheVars, allocated, cancel_accepted>>

\* _train_single_fold lines 192-195: creating or loading the model raises.
TaskLoadFails(t) ==
    /\ tasks[t].pc = "fold"
    /\ tasks' = [tasks EXCEPT ![t] = [FoldSplit(tasks[t]) EXCEPT
                                         !.pc = "except_error", !.error = "RuntimeError"]]
    /\ UNCHANGED <<dataVars, training_status, training_cancel_event, requests, runs,
                   storeVars, cacheVars, allocated, cancel_accepted>>

\* _train_single_fold without the check of lines 207-209.
CancelNeverObserved == FALSE

\* _train_single_fold line 207: the cancellation check at the top of an epoch.
CancelObserved == training_cancel_event

\* train_model lines 343-347: the fold's score is appended and the best fold kept.
FoldReturn(task) ==
    LET fold_dice == task.best_dice
        better == fold_dice > task.best_fold_dice
    IN  [task EXCEPT
            !.fold_dices = Append(@, fold_dice),
            !.best_fold_dice = IF better THEN fold_dice ELSE @,
            !.best_fold_idx = IF better THEN task.fold_idx ELSE @,
            !.fold_idx = @ + 1,
            !.pc = IF task.fold_idx + 1 < N_FOLDS THEN "fold" ELSE "promote"]

\* _train_single_fold line 237: the mean of the validation scores, 0.0 when the
\* validation fold is empty.
ValDice(task, scored) ==
    IF task.val_pairs = <<>> THEN 0 ELSE scored

\* _train_single_fold lines 205-247: the loop test, the cancellation check, one
\* epoch of training and validation scoring mean_dice, and its record_epoch.
TaskEpoch(t, mean_dice) ==
    /\ tasks[t].pc = "epoch"
    /\ tasks' =
           IF tasks[t].epoch > tasks[t].max_epochs
           THEN [tasks EXCEPT ![t] = FoldReturn(tasks[t])]
           ELSE IF CancelObserved
           THEN [tasks EXCEPT ![t].pc = "except_cancelled"]
           ELSE [tasks EXCEPT
                    ![t].pc = "callback",
                    ![t].mean_dice = ValDice(tasks[t], mean_dice),
                    ![t].version_log =
                        <<RecordEpoch(tasks[t].version_log[1], tasks[t].fold_idx,
                                      tasks[t].epoch, ValDice(tasks[t], mean_dice))>>]
    /\ UNCHANGED <<dataVars, training_status, training_cancel_event, requests, runs,
                   storeVars, cacheVars, allocated, cancel_accepted>>

\* _train_single_fold lines 211-235: the epoch's training or validation raises.
TaskEpochFails(t) ==
    /\ tasks[t].pc = "epoch"
    /\ tasks[t].epoch <= tasks[t].max_epochs
    /\ ~CancelObserved
    /\ tasks' = [tasks EXCEPT ![t].pc = "except_error", ![t].error = "RuntimeError"]
    /\ UNCHANGED <<dataVars, training_status, training_cancel_event, requests, runs,
                   storeVars, cacheVars, allocated, cancel_accepted>>

\* update_training_status assigning the reported score to best_dice.
UpdateTrainingStatusLastDice(epoch, dice, fold_idx) ==
    [training_status EXCEPT !.epoch = epoch, !.best_dice = dice,
                            !.current_fold = fold_idx]

\* update_training_status, called with (global_epoch, mean_dice, fold_idx).
UpdateTrainingStatus(epoch, dice, fold_idx) ==
    [training_status EXCEPT
        !.epoch = epoch,
        !.best_dice = IF dice > @ THEN dice ELSE @,
        !.current_fold = fold_idx]

\* _train_single_fold lines 239-251: the status callback.
TaskCallback(t) ==
    /\ tasks[t].pc = "callback"
    /\ LockFree
    /\ LET global_epoch == tasks[t].fold_idx * tasks[t].max_epochs + tasks[t].epoch
       IN  training_status' =
               UpdateTrainingStatus(global_epoch, tasks[t].mean_dice, tasks[t].fold_idx)
    /\ tasks' = [tasks EXCEPT ![t].pc = "save"]
    /\ UNCHANGED <<dataVars, training_cancel_event, requests, runs, storeVars,
                   cacheVars, allocated, cancel_accepted>>

\* _train_single_fold lines 253-262: an improved epoch overwrites fold_i.pt.
TaskSave(t) ==
    /\ tasks[t].pc = "save"
    /\ IF tasks[t].mean_dice > tasks[t].best_dice
       THEN /\ current_folds' =
                   (tasks[t].fold_idx :>
                       [run |-> t, fold_idx |-> tasks[t].fold_idx,
                        epoch |-> tasks[t].epoch, best_dice |-> tasks[t].mean_dice])
                   @@ current_folds
            /\ tasks' = [tasks EXCEPT ![t].pc = "epoch", ![t].epoch = @ + 1,
                                      ![t].best_dice = tasks[t].mean_dice]
       ELSE /\ tasks' = [tasks EXCEPT ![t].pc = "epoch", ![t].epoch = @ + 1]
            /\ UNCHANGED current_folds
    /\ UNCHANGED <<dataVars, training_status, training_cancel_event, requests, runs,
                   current_best, versions, cacheVars, allocated, cancel_accepted>>

\* train_model lines 349-353: the best fold's checkpoint is copied to best.pt.
TaskPromote(t) ==
    /\ tasks[t].pc = "promote"
    /\ current_best' =
           IF tasks[t].best_fold_idx \in DOMAIN current_folds
           THEN <<current_folds[tasks[t].best_fold_idx]>>
           ELSE current_best
    /\ tasks' = [tasks EXCEPT ![t].pc = "reload"]
    /\ UNCHANGED <<dataVars, training_status, training_cancel_event, requests, runs,
                   current_folds, versions, cacheVars, allocated, cancel_accepted>>

\* train_model lines 355-359: reload_model, then the mean of the fold scores.
TaskReload(t) ==
    /\ tasks[t].pc = "reload"
    /\ ReloadModel
    /\ tasks' = [tasks EXCEPT
           ![t].pc = "finalize",
           ![t].mean_dice = SumSeq(tasks[t].fold_dices) \div Len(tasks[t].fold_dices)]
    /\ UNCHANGED <<dataVars, training_status, training_cancel_event, requests, runs,
                   storeVars, allocated, cancel_accepted>>

\* finalize_version called with "completed" on every path.
FinalizeStatusCompleted(pc) == "completed"

\* train_model lines 366, 372-375, 380-383: the calls of finalize_version.
FinalizeStatus(pc) ==
    IF pc = "finalize" THEN "completed"
    ELSE IF pc = "except_cancelled" THEN "cancelled"
    ELSE "error"

FinalizeBestFold(task) ==
    IF task.pc = "finalize" THEN task.best_fold_idx
    ELSE IF task.best_fold_idx > 0 THEN task.best_fold_idx ELSE 0

FinalizePoints == {"finalize", "except_cancelled", "except_error"}

TaskFinalize(t) ==
    /\ tasks[t].pc \in FinalizePoints
    /\ versions' = FinalizeVersion(tasks[t].version, tasks[t].version_log[1],
                                   tasks[t].fold_dices, FinalizeBestFold(tasks[t]),
                                   FinalizeStatus(tasks[t].pc), Now)
    /\ tasks' = [tasks EXCEPT
           ![t].pc = IF tasks[t].pc = "finalize" THEN "set_completed"
                     ELSE IF tasks[t].pc = "except_cancelled" THEN "set_cancelled"
                     ELSE "set_error",
           ![t].finalize_calls = @ + 1]
    /\ UNCHANGED <<dataVars, training_status, training_cancel_event, requests, runs,
                   current_folds, current_best, cacheVars, allocated, cancel_accepted>>

\* run_training_task resetting the status to idle when the task ends.
TerminalStatusIdle(task) ==
    [training_status EXCEPT !.status = "idle", !.completed_at = Now]

\* run_training_task returning without its terminal update.
TerminalStatusStuck(task) == training_status

\* run_training_task lines 217-233: the terminal update under training_lock.
TerminalStatus(task) ==
    IF task.pc = "set_completed"
    THEN [training_status EXCEPT !.status = "completed", !.best_dice = task.mean_dice,
                                 !.version = task.version, !.completed_at = Now]
    ELSE IF task.pc = "set_cancelled"
    THEN [training_status EXCEPT !.status = "cancelled", !.completed_at = Now]
    ELSE [training_status EXCEPT !.status = "error", !.error = task.error,
                                 !.completed_at = Now]

TaskEnd(t) ==
    /\ tasks[t].pc \in {"set_completed", "set_cancelled", "set_error"}
    /\ LockFree
    /\ training_status' = TerminalStatus(tasks[t])
    /\ tasks' = [tasks EXCEPT ![t] =
           [NoTask EXCEPT !.pc = "done", !.version = tasks[t].version,
                          !.finalize_calls = tasks[t].finalize_calls,
                          !.outcome = TerminalStatus(tasks[t]).status]]
    /\ UNCHANGED <<dataVars, training_cancel_event, requests, runs, storeVars,
                   cacheVars, allocated, cancel_accepted>>

\* run_training_task lines 218, 224, 229: the terminal update seen from a thread
\* that does not take training_lock; the lock is taken and "status" assigned.
TaskEndStatus(t) ==
    /\ tasks[t].pc \in {"set_completed", "set_cancelled", "set_error"}
    /\ LockFree
    /\ training_status' =
           [training_status EXCEPT !.status = TerminalStatus(tasks[t]).status]
    /\ tasks' = [tasks EXCEPT ![t].pc = "locked",
                              ![t].outcome = TerminalStatus(tasks[t]).status]
    /\ UNCHANGED <<dataVars, training_cancel_event, requests, runs, storeVars,
                   cacheVars, allocated, cancel_accepted>>

\* run_training_task lines 219-221, 225, 230-231: the other keys are assigned
\* and the lock is released.
TaskEndRest(t) ==
    /\ tasks[t].pc = "locked"
    /\ LET task == [tasks[t] EXCEPT !.pc =
                       IF tasks[t].outcome = "completed" THEN "set_completed"
                       ELSE IF tasks[t].outcome = "cancelled" THEN "set_cancelled"
                       ELSE "set_error"]
       IN  /\ training_status' = TerminalStatus(task)
           /\ tasks' = [tasks EXCEPT ![t] =
                  [NoTask EXCEPT !.pc = "done", !.version = task.version,
                                 !.finalize_calls = task.finalize_calls,
                                 !.outcome = task.outcome]]
    /\ UNCHANGED <<dataVars, training_cancel_event, requests, runs, storeVars,
                   cacheVars, allocated, cancel_accepted>>

\* get_training_status: the record is returned, training_lock is not taken.
StatusQuery(s) ==
    /\ Free(s)
    /\ requests' = [requests EXCEPT ![s] =
           [Answered("status", 200) EXCEPT !.seen = <<training_status>>]]
    /\ UNCHANGED <<dataVars, training_status, training_cancel_event, tasks, runs,
                   storeVars, cacheVars, allocated, cancel_accepted>>

\* ------------------------------------------------- faults after training
\* train_model lines 350-357: the copy to best.pt or the import of
\* reload_model raises; nothing was written.
TaskPromoteFails(t) ==
    /\ tasks[t].pc \in {"promote", "reload"}
    /\ tasks' = [tasks EXCEPT ![t].pc = "except_error", ![t].error = "OSError"]
    /\ UNCHANGED <<dataVars, training_status, training_cancel_event, requests, runs,
                   storeVars, cacheVars, allocated, cancel_accepted>>

\* finalize_version raising at line 138: the directory and the checkpoint copies
\* exist, training_log.json was not written.
FinalizeVersionRaises(version) ==
    LET old == IF version \in DOMAIN versions
               THEN versions[version]
               ELSE [folds |-> <<>>, best |-> <<>>, log |-> <<>>]
        dir == [folds |-> current_folds @@ old.folds,
                best |-> IF current_best # <<>> THEN current_best ELSE old.best,
                log |-> old.log]
    IN  (version :> dir) @@ versions

\* finalize_version raising inside json.dump at line 139: as above, and
\* training_log.json is left truncated.
FinalizeVersionTruncates(version) ==
    LET old == IF version \in DOMAIN versions
               THEN versions[version]
               ELSE [folds |-> <<>>, best |-> <<>>, log |-> <<>>]
        dir == [folds |-> current_folds @@ old.folds,
                best |-> IF current_best # <<>> THEN current_best ELSE old.best,
                log |-> CorruptLog("truncated")]
    IN  (version :> dir) @@ versions

\* A finalize_version call raises: on the success path the exception reaches
\* the except clause of line 378, in an except clause it leaves train_model
\* and reaches run_training_task line 228.
TaskFinalizeFails(t) ==
    /\ tasks[t].pc \in FinalizePoints
    /\ versions' = FinalizeVersionRaises(tasks[t].version)
    /\ tasks' = [tasks EXCEPT
           ![t].pc = IF tasks[t].pc = "finalize" THEN "except_error" ELSE "set_error",
           ![t].error = "OSError",
           ![t].finalize_calls = @ + 1]
    /\ UNCHANGED <<dataVars, training_status, training_cancel_event, requests, runs,
                   current_folds, current_best, cacheVars, allocated, cancel_accepted>>

TaskFinalizeTruncates(t) ==
    /\ tasks[t].pc \in FinalizePoints
    /\ versions' = FinalizeVersionTruncates(tasks[t].version)
    /\ tasks' = [tasks EXCEPT
           ![t].pc = IF tasks[t].pc = "finalize" THEN "except_error" ELSE "set_error",
           ![t].error = "OSError",
           ![t].finalize_calls = @ + 1]
    /\ UNCHANGED <<dataVars, training_status, training_cancel_event, requests, runs,
                   current_folds, current_best, cacheVars, allocated, cancel_accepted>>

\* The record of a version is damaged on disk (outside the server).
CorruptRecord(name) ==
    /\ name \in DOMAIN versions
    /\ versions[name].log # <<>>
    /\ ~Undecodable(versions[name].log)
    /\ versions' = [versions EXCEPT ![name].log = CorruptLog("undecodable")]
    /\ UNCHANGED <<dataVars, training_status, training_cancel_event, requests, tasks,
                   runs, current_folds, current_best, cacheVars, allocated,
                   cancel_accepted>>

\* The operator removes a version directory from versions/ (outside the server).
DeleteVersionDir(name) ==
    /\ name \in DOMAIN versions
    /\ versions' = [n \in DOMAIN versions \ {name} |-> versions[n]]
    /\ UNCHANGED <<dataVars, training_status, training_cancel_event, requests, tasks,
                   runs, current_folds, current_best, cacheVars, allocated,
                   cancel_accepted>>

\* -------------------------------------------------------- specification
\* The files of a deployment: images 1, 2 in the inbox, images 2, 3 curated,
\* image 2 with a curated annotation; annotated is the set of inbox images
\* already annotated.
InitWith(annotated) ==
    /\ unannotated_images \in {[i \in {1, 2} |-> 0], [i \in Ids |-> 0]}
    /\ annotated \subseteq DOMAIN unannotated_images
    /\ unannotated_annotations = [i \in annotated |-> 1]
    /\ completed_images = [i \in {2, 3} |-> 0]
    /\ completed_annotations = [i \in {2} |-> 0]
    /\ training_status =
           [status |-> "idle", epoch |-> 0, max_epochs |-> 0, best_dice |-> 0,
            current_fold |-> 0, n_folds |-> N_FOLDS, started_at |-> 0,
            completed_at |-> 0, error |-> "", version |-> <<>>]
    /\ training_cancel_event = FALSE
    /\ requests = [s \in Slots |-> IdleRequest]
    /\ tasks = [t \in Runs |-> NoTask]
    /\ runs = 0
    /\ current_folds = <<>>
    /\ current_best = <<>>
    /\ versions = <<>>
    /\ models = {}
    /\ models_loaded = FALSE
    /\ allocated = <<>>
    /\ cancel_accepted = {}

\* One inbox image is annotated: two training pairs exist.
Init == InitWith({1}) /\ DOMAIN unannotated_images = {1, 2}

\* Nothing is annotated yet: one training pair exists.
InitFresh == InitWith({}) /\ DOMAIN unannotated_images = {1, 2}

\* Every inbox image 1..MaxId exists and any of them are annotated: between
\* one and MaxId + 1 training pairs exist.
InitFolds ==
    \E annotated \in SUBSET Ids :
        /\ InitWith(annotated)
        /\ unannotated_images = [i \in Ids |-> 0]

\* The four directories hold any files with ids in 1..MaxId: the server does
\* not create the curated partition and finds whatever was put there.
InitStats ==
    /\ \E ci, ca, ui, ua \in SUBSET Ids :
          /\ completed_images = [i \in ci |-> 0]
          /\ completed_annotations = [i \in ca |-> 0]
          /\ unannotated_images = [i \in ui |-> 0]
          /\ unannotated_annotations = [i \in ua |-> 1]
    /\ training_status =
           [status |-> "idle", epoch |-> 0, max_epochs |-> 0, best_dice |-> 0,
            current_fold |-> 0, n_folds |-> N_FOLDS, started_at |-> 0,
            completed_at |-> 0, error |-> "", version |-> <<>>]
    /\ training_cancel_event = FALSE
    /\ requests = [s \in Slots |-> IdleRequest]
    /\ tasks = [t \in Runs |-> NoTask]
    /\ runs = 0
    /\ current_folds = <<>>
    /\ current_best = <<>>
    /\ versions = <<>>
    /\ models = {}
    /\ models_loaded = FALSE
    /\ allocated = <<>>
    /\ cancel_accepted = {}

\* The request handlers of the orchestrator, run by the workers W.
TrainHandlers(W, limit) ==
    \/ \E s \in W, max_epochs \in 0..MaxEpochs : TrainRequest(s, max_epochs)
    \/ \E s \in W : TrainLock(s, limit)
    \/ \E s \in W : TrainClear(s)
    \/ \E s \in W : TrainAddTask(s)

CancelHandlers(W) ==
    \/ \E s \in W : CancelRequest(s)
    \/ \E s \in W : CancelSet(s)

RestoreHandlers(W) ==
    \/ \E s \in W, n \in 1..(MaxRuns + 1) : RestoreRequest(s, FormatVersion(n))
    \/ \E s \in W : RestoreCopyFolds(s)
    \/ \E s \in W : RestoreCopyBest(s)
    \/ \E s \in W : RestoreReload(s)

SubmitHandlers(W) ==
    \E s \in W, image_id \in Ids, data \in 1..MaxData : SubmitLabel(s, image_id, data)

NextHandlers(W) ==
    \E s \in W, strategy \in {"sequential", "random"} : GetNextSample(s, strategy)

InferSteps(W) ==
    \/ \E s \in W, image_id \in {1} : InferBegin(s, image_id)
    \/ \E s \in W : InferLoadModels(s)
    \/ \E s \in W : InferLoadEnd(s)

InferHandlers(W) ==
    \E s \in W, image_id \in Ids : Infer(s, image_id)

\* The background task up to its terminal update, its epochs scoring in S.
TrainingSteps(S) ==
    \/ \E t \in Runs : TaskBegin(t)
    \/ \E t \in Runs : TaskFoldSetup(t)
    \/ \E t \in Runs, mean_dice \in S : TaskEpoch(t, mean_dice)
    \/ \E t \in Runs : TaskCallback(t)
    \/ \E t \in Runs : TaskSave(t)
    \/ \E t \in Runs : TaskPromote(t)
    \/ \E t \in Runs : TaskReload(t)
    \/ \E t \in Runs : TaskFinalize(t)

\* The background task, its terminal update seen whole.
Training(S) ==
    \/ TrainingSteps(S)
    \/ \E t \in Runs : TaskEnd(t)

TrainingFails ==
    \/ \E t \in Runs : TaskLoadFails(t)
    \/ \E t \in Runs : TaskEpochFails(t)

TopScore == {MaxScore * DiceUnit}

\* One worker serving start, cancel and restore requests beside the
\* background task, whose epochs score anything and may raise.
Next ==
    \/ TrainHandlers({1}, MaxRuns)
    \/ CancelHandlers({1})
    \/ RestoreHandlers({1})
    \/ Training(Scores)
    \/ TrainingFails

Spec == Init /\ [][Next]_vars

\* Concurrent workers serving start, cancel and restore requests.
NextRace ==
    \/ TrainHandlers(Slots, MaxRuns)
    \/ CancelHandlers(Slots)
    \/ RestoreHandlers(Slots)
    \/ Training(TopScore)

SpecRace == Init /\ [][NextRace]_vars

\* One worker serving every request of the server, from a fresh deployment.
NextServer ==
    \/ TrainHandlers({1}, MaxRuns)
    \/ CancelHandlers({1})
    \/ RestoreHandlers({1})
    \/ SubmitHandlers({1})
    \/ Training(TopScore)

SpecServer == InitFresh /\ [][NextServer]_vars

\* A longer sequence of runs, each completed, cancelled or failed.
NextLong ==
    \/ TrainHandlers({1}, MaxRunsLong)
    \/ CancelHandlers({1})
    \/ Training(TopScore)
    \/ TrainingFails

SpecLong == Init /\ [][NextLong]_vars

\* Runs in sequence while the operator removes version directories.
NextDel ==
    \/ TrainHandlers({1}, MaxRunsLong)
    \/ Training(TopScore)
    \/ \E n \in 1..MaxRunsLong : DeleteVersionDir(FormatVersion(n))

SpecDel == Init /\ [][NextDel]_vars

\* Runs whose steps after the fold loop may raise.
NextFault ==
    \/ TrainHandlers({1}, MaxRuns)
    \/ CancelHandlers({1})
    \/ Training(TopScore)
    \/ TrainingFails
    \/ \E t \in Runs : TaskPromoteFails(t)
    \/ \E t \in Runs : TaskFinalizeFails(t)

SpecFault == Init /\ [][NextFault]_vars

\* The runs of SpecFault under fair scheduling: the background task, once
\* scheduled, goes on taking steps (each epoch terminates), and a start
\* request that left its lock section goes on to hand its task over.
TaskStep ==
    \/ Training(TopScore)
    \/ TrainingFails
    \/ \E t \in Runs : TaskPromoteFails(t)
    \/ \E t \in Runs : TaskFinalizeFails(t)

StartContinues == \E s \in Slots : TrainClear(s) \/ TrainAddTask(s)

SpecLive ==
    Init /\ [][NextFault]_vars /\ WF_vars(TaskStep) /\ WF_vars(StartContinues)

\* Status queries beside runs whose terminal update is seen key by key.
NextLock ==
    \/ TrainHandlers({1}, MaxRuns)
    \/ TrainingSteps(TopScore)
    \/ \E t \in Runs : TaskEndStatus(t)
    \/ \E t \in Runs : TaskEndRest(t)
    \/ \E s \in {1} : StatusQuery(s)

SpecLock == Init /\ [][NextLock]_vars

\* Inference requests beside runs that complete or are cancelled.
NextInfer ==
    \/ TrainHandlers({1}, MaxRuns)
    \/ CancelHandlers({1})
    \/ InferHandlers({1})
    \/ Training(TopScore)

SpecInfer == Init /\ [][NextInfer]_vars

\* Restores beside runs whose finalize_version calls may raise, leaving
\* version directories without a record or with a truncated one, and beside
\* records damaged on disk.
NextStore ==
    \/ TrainHandlers({1}, MaxRuns)
    \/ RestoreHandlers({1})
    \/ Training(TopScore)
    \/ \E t \in Runs : TaskFinalizeFails(t)
    \/ \E t \in Runs : TaskFinalizeTruncates(t)
    \/ \E n \in 1..MaxRuns : CorruptRecord(FormatVersion(n))

SpecStore == Init /\ [][NextStore]_vars

\* One run from any set of annotated inbox images: the shuffle and the split
\* of train_model act on every pair count.
NextFolds ==
    \/ TrainHandlers({1}, 1)
    \/ Training(TopScore)

SpecFolds == InitFolds /\ [][NextFolds]_vars

\* Annotators: workers picking the next unlabeled image and submitting labels,
\* from any set of annotated inbox images.
NextPick ==
    \/ NextHandlers(Slots)
    \/ SubmitHandlers(Slots)

SpecPick == InitFolds /\ [][NextPick]_vars

\* One worker answering /info and saving labels, from any directory contents.
NextStats ==
    \/ \E s \in {1} : GetInfo(s)
    \/ SubmitHandlers({1})

SpecStats == InitStats /\ [][NextStats]_vars

\* Inference requests, their lazy load seen statement by statement, beside
\* runs that all complete and so all end in reload_model.
NextCache ==
    \/ TrainHandlers({1}, MaxRuns)
    \/ InferSteps({2})
    \/ Training(TopScore)

SpecCache == Init /\ [][NextCache]_vars

\* One run of MaxEpochs + 1 epochs per fold beside cancel requests.
NextCancel ==
    \/ \E s \in {1}, max_epochs \in {MaxEpochs + 1} : TrainRequest(s, max_epochs)
    \/ \E s \in {1} : TrainLock(s, 1)
    \/ \E s \in {1} : TrainClear(s)
    \/ \E s \in {1} : TrainAddTask(s)
    \/ CancelHandlers({1})
    \/ Training(Scores)

SpecCancel == Init /\ [][NextCancel]_vars

\* ------------------------------------------------------------ properties
TerminalStates == {"completed", "cancelled", "error"}

\* C1: a start request that reaches the check of start_training while the
\* status is "running" is answered 409, and that step changes neither the
\* status record nor the cancellation flag, schedules no task and accepts
\* no run.
StartWhileRunningRejected ==
    [][\A s \in Slots :
          (/\ requests[s].op = "train" /\ requests[s].pc = "lock"
           /\ training_status.status = "running"
           /\ requests'[s] # requests[s])
          => /\ requests'[s] = Answered("train", 409)
             /\ UNCHANGED <<training_status, training_cancel_event, tasks, runs>>]_vars

\* A start request was answered 409 while the run it collided with is running.
StartRejectedWhileRunning ==
    \E s \in Slots :
        /\ requests[s] = Answered("train", 409)
        /\ training_status.status = "running"
        /\ \E t \in Runs : Active(t)

\* C2: at any time at most one training task is scheduled or executing,
\* counting the accepted start requests whose task is not yet handed over;
\* while there is one the status is "running", which is what a second start
\* request is rejected on.
AcceptedStarts ==
    {s \in Slots : requests[s].op = "train" /\ requests[s].pc \in {"clear", "add_task"}}

ActiveTasks == {t \in Runs : Active(t)}

AtMostOneActiveTask ==
    /\ Cardinality(AcceptedStarts) + Cardinality(ActiveTasks) <= 1
    /\ (AcceptedStarts # {} \/ ActiveTasks # {}) => training_status.status = "running"

\* Two start requests overlapped on the idle status: the first run was
\* accepted and its task is not yet scheduled, the other request is answered 409.
RacingStartsOneAccepted ==
    \E s, r \in Slots :
        /\ requests[s].op = "train" /\ requests[s].pc = "add_task"
        /\ requests[s].run = 1
        /\ requests[r] = Answered("train", 409)

\* C3: a run for which a cancel request was answered "cancelling" before its
\* task began, and which trains at least one epoch per fold, does not end as
\* "completed" (every cancellation check of the run is still ahead).
EarlyCancelNeverCompleted ==
    \A c \in cancel_accepted :
        (/\ c.early
         /\ training_status.started_at = c.run
         /\ training_status.max_epochs > 0)
        => training_status.status # "completed"

\* C4: every run that has ended is listed by list_all_versions under its
\* version, with a completed_at and with the status the global status
\* reported when the run ended.
FinalizeAlways ==
    \A t \in Runs :
        tasks[t].pc = "done" =>
            \E i \in 1..Len(ListAllVersions) :
                /\ ListAllVersions[i].version = tasks[t].version
                /\ ListAllVersions[i].completed_at # 0
                /\ ListAllVersions[i].status = tasks[t].outcome

\* Two runs ended, one cancelled and one with an error, and both are listed.
CancelledAndErrorListed ==
    /\ tasks[1].pc = "done" /\ tasks[2].pc = "done"
    /\ {tasks[1].outcome, tasks[2].outcome} = {"cancelled", "error"}
    /\ Len(ListAllVersions) = 2

\* C5: a run that has ended called finalize_version exactly once.
FinalizeOncePerRun ==
    \A t \in Runs : tasks[t].pc = "done" => tasks[t].finalize_calls = 1

\* C6: a label submitted for an id that names no inbox image is answered 400
\* and the step changes no file of either partition.
PartitionSafety ==
    [][\A s \in Slots :
          (/\ requests'[s] # requests[s]
           /\ requests'[s].op = "submit"
           /\ requests'[s].image_id \notin DOMAIN unannotated_images)
          => /\ requests'[s].code = 400
             /\ UNCHANGED dataVars]_vars

\* A label for image 3, which only the completed partition holds, was refused.
CuratedOnlyIdRefused ==
    /\ 3 \in DOMAIN completed_images
    /\ 3 \notin DOMAIN unannotated_images
    /\ \E s \in Slots :
          requests[s] = [Answered("submit", 400) EXCEPT !.image_id = 3]

\* C7: no step of the server changes the images or the annotations of the
\* completed partition.
CompletedPartitionUnchanged ==
    [][UNCHANGED <<completed_images, completed_annotations>>]_vars

\* A label for image 2, held by both partitions and annotated in the completed
\* one, was saved: the inbox holds the new annotation.
SharedIdSavedToInbox ==
    /\ 2 \in DOMAIN completed_images /\ 2 \in DOMAIN completed_annotations
    /\ 2 \in DOMAIN unannotated_annotations
    /\ unannotated_annotations[2] # completed_annotations[2]
    /\ \E s \in Slots :
          requests[s] = [Answered("submit", 200) EXCEPT !.image_id = 2]

\* C8: the versions allocated to the runs increase strictly in the order of
\* their allocation.
VersionMonotonicity ==
    \A i, j \in 1..Len(allocated) :
        i < j => IntOf(allocated[i].version) < IntOf(allocated[j].version)

\* Three runs were allocated versions; one was cancelled, one failed and one
\* completed.
ThreeRunsMixedOutcomes ==
    /\ Len(allocated) = 3
    /\ {tasks[t].outcome : t \in Runs} = TerminalStates

\* C9 as stated: no version is allocated twice.
VersionNeverReused ==
    \A i, j \in 1..Len(allocated) :
        i < j => allocated[i].version # allocated[j].version

\* C9: get_next_version returns the largest number among the directories that
\* exist at the call plus one (1 when none exists); a version allocated before
\* is returned again only when no directory of that or a larger number exists.
NextVersionAboveExisting ==
    \A j \in 1..Len(allocated) :
        LET existing == {IntOf(n) : n \in allocated[j].existing}
        IN  /\ allocated[j].version = FormatVersion(Max(existing \cup {0}) + 1)
            /\ \A n \in existing : n < IntOf(allocated[j].version)
            /\ \A i \in 1..(j - 1) :
                  allocated[i].version = allocated[j].version
                  => \A n \in existing : n < IntOf(allocated[i].version)

\* A version was allocated while the directory of an earlier run was removed
\* and that of a later run exists: the freed number is not the one returned.
AllocatedOverGap ==
    \E j \in 1..Len(allocated) : \E i \in 1..(j - 1) :
        /\ allocated[i].version \notin allocated[j].existing
        /\ \E n \in allocated[j].existing : IntOf(n) > IntOf(allocated[i].version)
        /\ allocated[j].version # allocated[i].version

\* C10: the status changes only from idle to running, from running to
\* completed, cancelled or error, and from one of these to running; it
\* becomes running only in the step that accepts a start request and leaves
\* running only in the step in which the run's task ends.
StatusTransitions ==
    [][training_status'.status # training_status.status =>
          \/ /\ training_status.status \in {"idle"} \cup TerminalStates
             /\ training_status'.status = "running"
             /\ runs' = runs + 1
          \/ /\ training_status.status = "running"
             /\ training_status'.status \in TerminalStates
             /\ \E t \in Runs : Active(t) /\ tasks'[t].pc = "done"]_vars

\* The first run ended with an error and the second one is running.
RunningAfterError ==
    /\ runs = 2
    /\ training_status.status = "running"
    /\ tasks[1].outcome = "error"
    /\ Active(2)

\* C11: a status query never returns a record in which a terminal update is
\* applied in part: a terminal status comes with its completed_at.
StatusReadsWhole ==
    \A s \in Slots :
        requests[s].op = "status" =>
            (requests[s].seen[1].status \in TerminalStates
             => requests[s].seen[1].completed_at # 0)

\* C12: while a start request stands between its lock section, which made the
\* status "running", and training_cancel_event.clear(), no cancel request has
\* been answered "cancelling" for its run.
NoCancelBeforeClear ==
    \A s \in Slots :
        (requests[s].op = "train" /\ requests[s].pc = "clear")
        => \A c \in cancel_accepted : c.run # requests[s].run

\* C13: a start request made while fewer than MIN_IMAGES_FOR_TRAINING pairs
\* exist is answered 400 in that step, which allocates no version, schedules no
\* task, accepts no run and changes neither the status nor the cancel flag.
InsufficientDataRejected ==
    [][\A s \in Slots :
          (/\ Free(s)
           /\ requests'[s].op = "train"
           /\ requests'[s] # requests[s]
           /\ Len(GetAllTrainingPairs) < MIN_IMAGES_FOR_TRAINING)
          => /\ requests'[s] = Answered("train", 400)
             /\ UNCHANGED <<training_status, training_cancel_event, tasks, runs,
                            allocated, versions>>]_vars

\* A start request was answered 400 while one training pair exists; no run was
\* accepted and no version allocated.
StartRefusedForOnePair ==
    /\ Len(GetAllTrainingPairs) = 1
    /\ \E s \in Slots : requests[s] = Answered("train", 400)
    /\ runs = 0 /\ allocated = <<>> /\ versions = <<>>
    /\ training_status.status = "idle"

\* C14: a cancel request checked while the status is not "running" is answered
\* 409 in a step that changes neither the status record nor the cancel flag;
\* checked while "running" it goes on to set the flag and is answered 200, and
\* neither of its steps changes the status record.
CancelPreconditions ==
    [][\A s \in Slots :
          /\ (/\ Free(s)
              /\ requests'[s].op = "cancel"
              /\ requests'[s] # requests[s])
             => /\ UNCHANGED <<training_status, training_cancel_event>>
                /\ IF training_status.status = "running"
                   THEN requests'[s].pc = "set"
                   ELSE requests'[s] = Answered("cancel", 409)
          /\ (/\ requests[s].op = "cancel" /\ requests[s].pc = "set"
              /\ requests'[s] # requests[s])
             => /\ requests'[s] = Answered("cancel", 200)
                /\ training_cancel_event'
                /\ UNCHANGED training_status]_vars

\* One cancel request was answered 409 on a status that is not "running" and
\* left the flag clear; another was answered 200 and the flag is set.
CancelRefusedAndAccepted ==
    /\ training_status.status = "running"
    /\ training_cancel_event
    /\ \E s \in Slots : requests[s] = Answered("cancel", 200)
    /\ \E s \in Slots : requests[s] = Answered("cancel", 409)

\* C15: when a run's terminal status is reported the inference cache is
\* invalid or holds what load_ensemble would load from the checkpoint files,
\* so that the first inference after the run answers from the files.
CacheFreshAtTerminal ==
    [][(/\ training_status.status = "running"
        /\ training_status'.status \in TerminalStates)
       => (models_loaded' => models' = EnsembleFiles')]_vars

\* C16: no copy step of a restore request executes while the status is
\* "running".
NoRestoreCopyWhileRunning ==
    [][\A s \in Slots :
          (/\ requests[s].op = "restore"
           /\ requests'[s] # requests[s]
           /\ \/ requests[s].pc = "copy_folds" /\ requests[s].version \in DOMAIN versions
              \/ requests[s].pc = "copy_best")
          => training_status.status # "running"]_vars

\* C17 as stated: a restore of a version whose directory or whose record is
\* absent is answered 404 and changes neither the current slot nor the cache.
RestoreNotFoundWithoutRecord ==
    [][\A s \in Slots :
          (/\ requests[s].op = "restore" /\ requests[s].pc = "copy_folds"
           /\ requests'[s] # requests[s]
           /\ \/ requests[s].version \notin DOMAIN versions
              \/ versions[requests[s].version].log = <<>>)
          => /\ requests'[s] = Answered("restore", 404)
             /\ UNCHANGED <<current_folds, current_best, models, models_loaded>>]_vars

\* C17: a restore of a version whose directory is absent is answered 404 and
\* changes neither the current slot nor the cache; when the directory exists
\* the restore goes on to copy, with or without a record in it.
RestoreNotFoundIffNoDirectory ==
    [][\A s \in Slots :
          (/\ requests[s].op = "restore" /\ requests[s].pc = "copy_folds"
           /\ requests'[s] # requests[s])
          => IF requests[s].version \notin DOMAIN versions
             THEN /\ requests'[s] = Answered("restore", 404)
                  /\ UNCHANGED <<current_folds, current_best, models, models_loaded>>
             ELSE requests'[s].pc = "copy_best"]_vars

\* A restore passed the directory check for a version that holds checkpoints
\* and no record.
RecordlessVersionRestored ==
    \E s \in Slots :
        /\ requests[s].op = "restore" /\ requests[s].pc = "copy_best"
        /\ requests[s].version \in DOMAIN versions
        /\ versions[requests[s].version].log = <<>>
        /\ DOMAIN versions[requests[s].version].folds # {}

CurrentSlotCheckpoints ==
    {current_folds[i] : i \in DOMAIN current_folds}
    \cup (IF current_best # <<>> THEN {current_best[1]} ELSE {})

CurrentSlotOneVersion ==
    (/\ training_status.status # "running"
     /\ \A s \in Slots : requests[s].op # "restore" \/ Free(s))
    => \A a, b \in CurrentSlotCheckpoints : a.run = b.run

\* C20: list_all_versions does not fail and returns one summary for each
\* version directory, with status "unknown" when the directory has no record,
\* "error" when the record cannot be read, and the recorded status otherwise.
ListingComplete ==
    /\ ~ListAllVersionsRaises
    /\ LET names == {n \in DOMAIN versions : MatchesVersion(n)}
           listing == ListAllVersions
       IN  /\ Len(listing) = Cardinality(names)
           /\ \A n \in names :
                 \E i \in 1..Len(listing) :
                     /\ listing[i].version = n
                     /\ listing[i].status =
                           IF versions[n].log = <<>> THEN "unknown"
                           ELSE IF Corrupt(versions[n].log) THEN "error"
                           ELSE versions[n].log[1].status

\* C20, the records that json.load rejects: a listing that does not fail is
\* complete, whatever records are missing or truncated.
ListingCompleteUnlessRaised ==
    ListAllVersionsRaises \/ ListingComplete

\* C21: the round-robin split of N pairs into k folds gives k folds whose
\* sizes differ by at most 1 and which hold every pair exactly once; the
\* training pairs built for a fold are the pairs of the other folds, none of
\* them among the fold's validation pairs.
Flatten(folds) == ExtendOthers(folds, -1, 1)

Count(seq, x) == Cardinality({i \in DOMAIN seq : seq[i] = x})

Elements(seq) == {seq[i] : i \in DOMAIN seq}

SameMultiset(a, b) ==
    /\ Len(a) = Len(b)
    /\ \A x \in Elements(a) \cup Elements(b) : Count(a, x) = Count(b, x)

FoldsComplete(folds, all_pairs, k) ==
    /\ Len(folds) = k
    /\ \A f, g \in 1..k : Len(folds[f]) - Len(folds[g]) <= 1
    /\ SameMultiset(Flatten(folds), all_pairs)
    /\ \A x \in Elements(all_pairs) : Count(Flatten(folds), x) = 1
    /\ \A f \in 0..(k - 1) :
          LET train == TrainPairsFold(folds, f)
          IN  /\ SameMultiset(train \o folds[f + 1], all_pairs)
              /\ Elements(train) \cap Elements(folds[f + 1]) = {}
              /\ Elements(train) = UNION {Elements(folds[j]) : j \in (1..k) \ {f + 1}}

FoldCompleteness ==
    \A t \in Runs :
        /\ tasks[t].folds # <<>> =>
              /\ FoldsComplete(tasks[t].folds, tasks[t].training_pairs, N_FOLDS)
              /\ tasks[t].pc \in {"epoch", "callback", "save"} =>
                    /\ tasks[t].val_pairs = tasks[t].folds[tasks[t].fold_idx + 1]
                    /\ tasks[t].train_pairs_fold =
                           TrainPairsFold(tasks[t].folds, tasks[t].fold_idx)
                    /\ LET fold == tasks[t].version_log[1].folds[tasks[t].fold_idx + 1]
                       IN  /\ fold.val_count = Len(tasks[t].val_pairs)
                           /\ fold.train_count + fold.val_count
                                  = Len(tasks[t].training_pairs)
        /\ tasks[t].pc = "queued" =>
              \A k \in 1..MaxFolds : \A all_pairs \in Shuffles(tasks[t].training_pairs) :
                  FoldsComplete(MakeFolds(all_pairs, k), all_pairs, k)

\* More pairs than folds were split into folds of unequal size and the run
\* trains its middle fold on the pairs of the folds on either side.
UnequalFoldsMiddleTraining ==
    \E t \in Runs :
        /\ tasks[t].pc = "epoch" /\ tasks[t].fold_idx = 1
        /\ Len(tasks[t].training_pairs) > N_FOLDS
        /\ Len(tasks[t].folds[1]) > Len(tasks[t].folds[N_FOLDS])
        /\ tasks[t].train_pairs_fold = tasks[t].folds[1] \o tasks[t].folds[3]

\* C22: when the folds of a run are done the checkpoint of the fold with the
\* highest best score becomes best.pt, and the score written to the status
\* when the run completes is the mean of the fold best scores as record_epoch
\* kept them.
BestFoldPromoted ==
    \A t \in Runs :
        (tasks[t].pc = "promote" /\ tasks'[t].pc = "reload")
        => /\ current_best' # <<>>
           /\ current_best'[1].run = t
           /\ current_best'[1].best_dice = Max(Elements(tasks[t].fold_dices))
           /\ current_best'[1] = current_folds[current_best'[1].fold_idx]

MeanReported ==
    \A t \in Runs :
        (tasks[t].pc = "set_completed" /\ tasks'[t].pc = "done")
        => LET log == versions[tasks[t].version].log[1]
           IN  /\ training_status'.status = "completed"
               /\ training_status'.best_dice * N_FOLDS
                      = SumSeq([i \in 1..N_FOLDS |-> log.folds[i].best_dice])
               /\ log.results[1].mean_dice = training_status'.best_dice

BestPromotedMeanReported == [][BestFoldPromoted /\ MeanReported]_vars

\* C22, the mean: the completed status carries the mean of the fold best scores.
MeanOfFoldsReported == [][MeanReported]_vars

\* C22, the promotion of a run in which some fold scored above zero.
BestFoldPromotedWhenScored ==
    [][(\E t \in Runs : tasks[t].pc = "promote"
                         /\ Max(Elements(tasks[t].fold_dices)) > 0)
       => BestFoldPromoted]_vars

\* C23: a sequential pick answers the smallest id among the inbox images
\* without an inbox annotation, None (0) when there is none; no pick answers
\* an id whose annotation was saved, and a saved annotation stays.
UnlabeledIds == ListPng(unannotated_images) \ ListPng(unannotated_annotations)

SequentialPickSmallestUnlabeled ==
    [][/\ \A s \in Slots :
             (requests'[s] # requests[s] /\ requests'[s].op = "next")
             => /\ requests'[s].image_id \notin DOMAIN unannotated_annotations
                /\ requests'[s].image_id = 0 <=> UnlabeledIds = {}
                /\ requests'[s].image_id # 0 => requests'[s].image_id \in UnlabeledIds
                /\ (requests'[s].strategy = "sequential" /\ UnlabeledIds # {})
                   => \A i \in UnlabeledIds : requests'[s].image_id <= i
       /\ DOMAIN unannotated_annotations \subseteq DOMAIN unannotated_annotations'
       /\ \A s \in Slots :
             (requests'[s] # requests[s] /\ requests'[s].op = "submit"
              /\ requests'[s].code = 200)
             => requests'[s].image_id \in DOMAIN unannotated_annotations']_vars

\* Image 1 was annotated with success and the sequential pick that followed
\* answered image 2, the smallest one left; images 3 and 4 are not annotated.
PickAfterAnnotateNextId ==
    /\ DOMAIN unannotated_annotations = {1}
    /\ requests[1] = [Answered("submit", 200) EXCEPT !.image_id = 1]
    /\ requests[2] = [Answered("next", 200) EXCEPT !.image_id = 2,
                                                   !.strategy = "sequential"]

\* Every inbox image is annotated and a sequential pick answered None.
PickNoneAvailable ==
    /\ UnlabeledIds = {}
    /\ \E s \in Slots : requests[s].op = "next" /\ requests[s].image_id = 0

\* C24: an inference request for an existing image that finds the cache
\* invalid loads the fold checkpoints when one exists, best.pt only when none
\* exists, and is answered 503 only when neither a fold checkpoint nor best.pt
\* exists.
InferStep(s) ==
    /\ Free(s)
    /\ requests'[s] # requests[s]
    /\ requests'[s].op = "infer"
    /\ requests'[s].code # 404

LazyLoadFoldsFirst ==
    [][\A s \in Slots :
          (InferStep(s) /\ ~models_loaded)
          => /\ requests'[s].code = 503
                <=> (DOMAIN current_folds = {} /\ current_best = <<>>)
             /\ requests'[s].code = 200
                => /\ models_loaded'
                   /\ models' = IF DOMAIN current_folds # {}
                                 THEN {current_folds[i] : i \in DOMAIN current_folds}
                                 ELSE {current_best[1]}]_vars

\* C24, the engine: whenever load_ensemble runs it loads the fold checkpoints
\* when one exists and best.pt otherwise, and the request is answered 503 when
\* nothing was loaded.
EngineLoadsFoldsFirst ==
    [][(~models_loaded /\ models_loaded')
       => /\ models' = IF DOMAIN current_folds # {}
                        THEN {current_folds[i] : i \in DOMAIN current_folds}
                        ELSE IF current_best # <<>> THEN {current_best[1]} ELSE {}
          /\ \A s \in Slots :
                InferStep(s) => (requests'[s].code = 503 <=> models' = {})]_vars

\* C25: reload_model leaves the cache empty and not loaded, whatever it held,
\* and an inference that starts after it returned answers from models read
\* from the checkpoints as they are then: once no run is running and no
\* request is loading, a loaded cache holds what the checkpoint files hold.
Quiet ==
    /\ training_status.status # "running"
    /\ \A t \in Runs : ~Active(t)
    /\ \A s \in Slots : Free(s)

CacheFreshAfterInvalidate ==
    /\ Quiet /\ models_loaded => models = EnsembleFiles
    /\ \A s \in Slots :
          (Quiet /\ requests[s].op = "infer" /\ requests[s].code = 200)
          => requests[s].seen[1] = EnsembleFiles

\* C26: an inference answered while a run is running uses no checkpoint
\* written by that run.
InferenceIgnoresRunningRun ==
    [][\A s \in Slots :
          (/\ InferStep(s)
           /\ requests'[s].code = 200
           /\ training_status.status = "running")
          => \A m \in models' : m.run # training_status.started_at]_vars

\* C26, the loaded cache: an inference that finds the cache loaded leaves it
\* as it is, whatever the checkpoint files hold.
LoadedSnapshotKept ==
    [][\A s \in Slots :
          (InferStep(s) /\ models_loaded) => UNCHANGED <<models, models_loaded>>]_vars

\* C27: when a run ends on an exception the status record has status "error"
\* with the exception's message, and list_all_versions has an entry for the
\* run's version with status "error" and that message.
RunFails(t) == tasks[t].pc = "set_error" /\ tasks'[t].pc = "done"

FailedRunInStatus(t) ==
    /\ training_status'.status = "error"
    /\ tasks[t].error # ""
    /\ training_status'.error = tasks[t].error

FailedRunListedWithMessage ==
    [][\A t \in Runs :
          RunFails(t)
          => /\ FailedRunInStatus(t)
             /\ \E i \in 1..Len(ListAllVersions) :
                   LET entry == ListAllVersions[i]
                   IN  /\ entry.version = tasks[t].version
                       /\ entry.status = "error"
                       /\ "error" \in DOMAIN entry
                       /\ entry.error = tasks[t].error]_vars

\* C27, what is visible: the status record carries the message and the
\* version is listed with status "error".
FailedRunListed ==
    [][\A t \in Runs :
          RunFails(t)
          => /\ FailedRunInStatus(t)
             /\ \E i \in 1..Len(ListAllVersions) :
                   /\ ListAllVersions[i].version = tasks[t].version
                   /\ ListAllVersions[i].status = "error"]_vars

\* C28: a run that observes the cancellation in fold f ends with status
\* "cancelled", and its version record, finalized as "cancelled", holds the
\* epochs recorded for the folds 0..f (every epoch of the folds before f, the
\* epochs of f before the one at which the cancellation was seen) and, for
\* every fold after f, the entry create_version_log made: no epochs, counts 0,
\* best score 0.
UnexecutedFold(j) ==
    [fold_idx |-> j, train_count |-> 0, val_count |-> 0,
     best_dice |-> 0, best_epoch |-> 0, epochs |-> <<>>]

CancelledRecord(t, log) ==
    /\ log.status = "cancelled"
    /\ \A j \in FoldIdx :
          LET fold == log.folds[j + 1]
              recorded == IF j < tasks[t].fold_idx THEN tasks[t].max_epochs
                          ELSE tasks[t].epoch - 1
          IN  IF j > tasks[t].fold_idx
              THEN fold = UnexecutedFold(j)
              ELSE /\ Len(fold.epochs) = recorded
                   /\ \A e \in 1..recorded : fold.epochs[e].epoch = e
                   /\ fold.train_count + fold.val_count = Len(tasks[t].training_pairs)

CancelledRunRecord ==
    [][\A t \in Runs :
          /\ (tasks[t].pc = "except_cancelled" /\ tasks'[t].pc # tasks[t].pc)
             => /\ tasks'[t].pc = "set_cancelled"
                /\ tasks[t].version \in DOMAIN versions'
                /\ CancelledRecord(t, versions'[tasks[t].version].log[1])
          /\ (tasks[t].pc = "set_cancelled" /\ tasks'[t].pc # tasks[t].pc)
             => /\ training_status'.status = "cancelled"
                /\ versions[tasks[t].version].log[1].status = "cancelled"]_vars

\* A run was cancelled at the last epoch of its middle fold: the record holds
\* every epoch of fold 0, the earlier epochs of fold 1 and nothing of fold 2.
CancelledInMiddleFold ==
    /\ training_status.status = "cancelled"
    /\ tasks[1].pc = "done"
    /\ LET log == versions[tasks[1].version].log[1]
       IN  /\ log.status = "cancelled"
           /\ Len(log.folds[1].epochs) = MaxEpochs + 1
           /\ Len(log.folds[2].epochs) = MaxEpochs
           /\ log.folds[3] = UnexecutedFold(2)

\* C29: a run in which a fold raises starts no later fold, is finalized with
\* status "error" with the epochs and the fold best scores recorded until
\* then, and ends with status "error"; none of these steps changes the answer
\* the start request was given.
FailedRecord(t, log) ==
    /\ log.status = "error"
    /\ log.folds = tasks[t].version_log[1].folds
    /\ log.results[1].fold_dices = tasks[t].fold_dices
    /\ Len(tasks[t].fold_dices) = tasks[t].fold_idx
    /\ \A j \in FoldIdx :
          IF j < tasks[t].fold_idx
          THEN /\ Len(log.folds[j + 1].epochs) = tasks[t].max_epochs
               /\ log.folds[j + 1].best_dice = tasks[t].fold_dices[j + 1]
          ELSE IF j > tasks[t].fold_idx
          THEN log.folds[j + 1] = UnexecutedFold(j)
          ELSE Len(log.folds[j + 1].epochs) <= tasks[t].max_epochs

FailedFoldEndsRun ==
    [][\A t \in Runs :
          /\ (tasks[t].pc = "except_error" /\ tasks'[t].pc # tasks[t].pc)
             => /\ tasks'[t].pc = "set_error"
                /\ tasks[t].version \in DOMAIN versions'
                /\ FailedRecord(t, versions'[tasks[t].version].log[1])
                /\ UNCHANGED requests
          /\ (tasks[t].pc = "set_error" /\ tasks'[t].pc # tasks[t].pc)
             => /\ tasks'[t].pc = "done"
                /\ training_status'.status = "error"
                /\ versions[tasks[t].version].log[1].status = "error"
                /\ UNCHANGED requests]_vars

\* The middle fold of a run raised after fold 0 had trained and scored: the
\* run ended as "error", its record holds fold 0's epoch and best score and
\* nothing of the last fold, and the start request stays answered 200.
FailedInMiddleFold ==
    /\ training_status.status = "error"
    /\ tasks[1].pc = "done"
    /\ requests[1] = Answered("train", 200)
    /\ LET log == versions[tasks[1].version].log[1]
       IN  /\ log.status = "error"
           /\ Len(log.folds[1].epochs) = 1
           /\ log.results[1].fold_dices = <<log.folds[1].best_dice>>
           /\ log.folds[1].best_dice > 0
           /\ log.folds[2].train_count > 0
           /\ log.folds[3] = UnexecutedFold(2)

\* C30: each status callback of a run writes epoch = fold_idx * max_epochs +
\* the fold's epoch, which is above the epoch the status held and at most the
\* status max_epochs = N_FOLDS * max_epochs; current_fold does not decrease;
\* best_dice is the largest validation score recorded in the run so far; and
\* between callbacks the status epoch does not change while the run goes on.
CallbackStep(t) == tasks[t].pc = "callback" /\ tasks'[t].pc # tasks[t].pc

RecordedScores(log) ==
    UNION {{log.folds[j].epochs[e].val_dice : e \in DOMAIN log.folds[j].epochs}
           : j \in DOMAIN log.folds}

ProgressMonotone ==
    [][/\ \A t \in Runs :
             CallbackStep(t)
             => /\ training_status'.epoch
                      = tasks[t].fold_idx * tasks[t].max_epochs + tasks[t].epoch
                /\ training_status'.epoch > training_status.epoch
                /\ training_status'.max_epochs = N_FOLDS * tasks[t].max_epochs
                /\ training_status'.epoch <= training_status'.max_epochs
                /\ training_status'.current_fold = tasks[t].fold_idx
                /\ training_status'.current_fold >= training_status.current_fold
                /\ training_status'.best_dice
                      = Max(RecordedScores(tasks[t].version_log[1]))
                /\ training_status'.status = "running"
       /\ (training_status'.epoch # training_status.epoch
           \/ training_status'.current_fold # training_status.current_fold)
          => \/ \E t \in Runs : CallbackStep(t)
             \/ runs' = runs + 1 /\ training_status'.epoch = 0]_vars

\* The last callback of a run was made: the status epoch has reached
\* max_epochs in the last fold, and best_dice is a score above one that was
\* reported after it.
LastCallbackBestKept ==
    \E t \in Runs :
        /\ tasks[t].pc = "save"
        /\ training_status.status = "running"
        /\ training_status.epoch = training_status.max_epochs
        /\ training_status.epoch = N_FOLDS * (MaxEpochs + 1)
        /\ training_status.current_fold = N_FOLDS - 1
        /\ training_status.best_dice > tasks[t].mean_dice
        /\ training_status.best_dice # tasks[t].version_log[1].folds[2].epochs[1].val_dice

\* C31: a run that reaches the top of an epoch with the cancel flag set trains
\* and records nothing more: it goes to the cancelled exit, from where it only
\* finalizes and ends; these steps start no fold, write no checkpoint to the
\* current slot and promote nothing, and the fold checkpoints written before
\* stay in the current slot and are copied to the version.
CancelledExit == {"except_cancelled", "set_cancelled"}

CancelStopsRun ==
    [][\A t \in Runs :
          /\ (/\ tasks[t].pc = "epoch"
              /\ tasks[t].epoch <= tasks[t].max_epochs
              /\ training_cancel_event
              /\ tasks'[t] # tasks[t])
             => tasks'[t] = [tasks[t] EXCEPT !.pc = "except_cancelled"]
          /\ (tasks[t].pc \in CancelledExit /\ tasks'[t] # tasks[t])
             => /\ UNCHANGED <<current_folds, current_best, training_cancel_event>>
                /\ IF tasks[t].pc = "except_cancelled"
                   THEN /\ tasks'[t] = [tasks[t] EXCEPT !.pc = "set_cancelled",
                                                        !.finalize_calls = @ + 1]
                        /\ versions'[tasks[t].version].folds = current_folds
                        /\ versions'[tasks[t].version].log[1].folds
                               = tasks[t].version_log[1].folds
                   ELSE /\ tasks'[t].pc = "done"
                        /\ UNCHANGED versions]_vars

\* A run was cancelled at a later epoch of its middle fold: the checkpoints
\* of fold 0 and of fold 1's earlier epoch are on disk and in the version, the
\* last fold has none, nothing was promoted.
CancelledKeepsEarlierCheckpoint ==
    /\ tasks[1].pc = "done" /\ tasks[1].outcome = "cancelled"
    /\ DOMAIN current_folds = {0, 1}
    /\ current_folds[0].run = 1 /\ current_folds[1].run = 1
    /\ current_best = <<>>
    /\ versions[tasks[1].version].folds = current_folds
    /\ Len(versions[tasks[1].version].log[1].folds[2].epochs) = MaxEpochs

\* C32: a version directory whose record holds a terminal status is changed
\* by no later step: its record and its checkpoint files stay as they are.
Finalized(n) ==
    /\ n \in DOMAIN versions
    /\ versions[n].log # <<>>
    /\ ~Corrupt(versions[n].log)
    /\ versions[n].log[1].status \in TerminalStates

FinalizedVersionFrozen ==
    [][\A n \in DOMAIN versions :
          Finalized(n) => (n \in DOMAIN versions' /\ versions'[n] = versions[n])]_vars

\* The first version was finalized, a second run was finalized after it and
\* the first version was restored: it still holds run 1's record and only
\* checkpoints of run 1.
FirstVersionKeptAfterSecondRun ==
    /\ Finalized(FormatVersion(1)) /\ Finalized(FormatVersion(2))
    /\ \E s \in Slots : /\ requests[s] = Answered("restore", 200)
    /\ versions[FormatVersion(1)].log[1].started_at = 1
    /\ versions[FormatVersion(2)].log[1].started_at = 2
    /\ DOMAIN versions[FormatVersion(1)].folds # {}
    /\ \A i \in DOMAIN versions[FormatVersion(1)].folds :
          versions[FormatVersion(1)].folds[i].run = 1
    /\ \E i \in DOMAIN versions[FormatVersion(2)].folds :
          versions[FormatVersion(2)].folds[i].run = 2

StaleCancelHarmless ==
    \A t \in Runs :
        tasks[t].outcome = "cancelled" => \E c \in cancel_accepted : c.run = t

\* C35: in the record of every completed run best_fold_idx is a fold index in
\* 0..N_FOLDS-1, best_fold_dice is the score of that fold and the maximum of
\* fold_dices, and the promoted checkpoint kept with the version is that
\* fold's checkpoint, whatever the fold scores and the epoch budget.
BestFoldRecorded(n) ==
    LET results == versions[n].log[1].results[1]
    IN  /\ results.best_fold_idx \in 0..(N_FOLDS - 1)
        /\ Len(results.fold_dices) = N_FOLDS
        /\ results.best_fold_dice = results.fold_dices[results.best_fold_idx + 1]
        /\ results.best_fold_dice = Max(Elements(results.fold_dices))
        /\ results.best_fold_idx \in DOMAIN versions[n].folds
        /\ versions[n].best = <<versions[n].folds[results.best_fold_idx]>>

CompletedRecordBestFold ==
    \A n \in DOMAIN versions :
        versions[n].log[1].status = "completed" => BestFoldRecorded(n)

\* C35, the runs in which some fold scored above zero.
CompletedRecordBestFoldWhenScored ==
    \A n \in DOMAIN versions :
        (/\ versions[n].log[1].status = "completed"
         /\ Max(Elements(versions[n].log[1].results[1].fold_dices)) > 0)
        => BestFoldRecorded(n)

\* C36: every checkpoint kept in a version's directory, fold_i.pt and
\* best.pt, was written by the run of that version, never by an earlier run
\* or by a restore into the current slot.
VersionCheckpoints(n) ==
    {versions[n].folds[i] : i \in DOMAIN versions[n].folds}
    \cup (IF versions[n].best # <<>> THEN {versions[n].best[1]} ELSE {})

VersionHoldsOwnCheckpoints ==
    \A t \in Runs :
        tasks[t].version \in DOMAIN versions
        => \A c \in VersionCheckpoints(tasks[t].version) : c.run = t

\* C37: every fold of an accepted run, which has at least
\* MIN_IMAGES_FOR_TRAINING pairs, trains on a non-empty training set and is
\* scored on a non-empty validation set.
FoldSetsNonEmpty(t) ==
    tasks[t].pc \in {"epoch", "callback", "save"}
    => /\ tasks[t].val_pairs # <<>>
       /\ tasks[t].train_pairs_fold # <<>>

EveryFoldValidated ==
    \A t \in Runs :
        Len(tasks[t].training_pairs) >= MIN_IMAGES_FOR_TRAINING => FoldSetsNonEmpty(t)

\* C37, the runs with at least N_FOLDS pairs.
EveryFoldValidatedWhenEnoughPairs ==
    \A t \in Runs :
        Len(tasks[t].training_pairs) >= N_FOLDS => FoldSetsNonEmpty(t)

\* C38: whatever the four directories hold, the total_training_pairs that
\* get_stats counts, as /info reports it, is the number of pairs that
\* get_all_training_pairs returns.
StatsCountsTrainingPairs ==
    [][\A s \in Slots :
          (requests'[s] # requests[s] /\ requests'[s].op = "info")
          => requests'[s].seen[1].total_training_pairs = Len(GetAllTrainingPairs)]_vars

\* C38, the directories in which every curated annotation has its image.
StatsCountsTrainingPairsWhenPaired ==
    [][\A s \in Slots :
          (/\ requests'[s] # requests[s] /\ requests'[s].op = "info"
           /\ ListPng(completed_annotations) \subseteq ListPng(completed_images))
          => requests'[s].seen[1].total_training_pairs = Len(GetAllTrainingPairs)]_vars

\* C39: in the step that makes the status of a run completed, cancelled or
\* error, the record of the run's version is already written with that
\* status by a finalize_version call that returned; when the status becomes
\* completed, best.pt is already the checkpoint this run promoted and the
\* inference cache was invalidated.
RecordFinalized(t, status) ==
    /\ tasks[t].version \in DOMAIN versions
    /\ versions[tasks[t].version].log # <<>>
    /\ ~Corrupt(versions[tasks[t].version].log)
    /\ versions[tasks[t].version].log[1].status = status

PromotedAndInvalidated(t) ==
    /\ current_best # <<>>
    /\ current_best[1].run = t
    /\ ~models_loaded

TerminalStep(t) == Active(t) /\ tasks'[t].pc = "done"

TerminalAfterFinalize ==
    [][\A t \in Runs :
          TerminalStep(t)
          => /\ training_status'.status \in TerminalStates
             /\ RecordFinalized(t, training_status'.status)
             /\ training_status'.status = "completed" => PromotedAndInvalidated(t)]_vars

\* C39, the runs whose finalize_version calls return: the record is written
\* before the status becomes terminal.
TerminalAfterRecord ==
    [][\A t \in Runs :
          TerminalStep(t)
          => /\ training_status'.status \in TerminalStates
             /\ RecordFinalized(t, training_status'.status)]_vars

\* C40: a "version" in a terminal status is the version of the run that just
\* ended, and while a run is running or after it ended as cancelled or error
\* the status carries no version of an earlier completed run.
StatusVersionOfLastRun ==
    /\ (training_status.status \in TerminalStates /\ training_status.version # <<>>)
       => training_status.version = tasks[training_status.started_at].version
    /\ training_status.status \in {"running", "cancelled", "error"}
       => training_status.version = <<>>

\* C40, the completed status: its version is the version of the run that ended.
CompletedStatusVersion ==
    training_status.status = "completed"
    => training_status.version = tasks[training_status.started_at].version

====
